---- MODULE Spec2Model ----
EXTENDS Integers, FiniteSets, Sequences, TLC

(***************************************************************************)
(* Cracked-Oura backend: the export automation (automation.py), its        *)
(* status store (config.py) and the callers that drive it: the scheduler   *)
(* loop and the HTTP handlers with their background tasks (api/main.py,    *)
(* api/routes.py).                                                         *)
(*                                                                         *)
(* Everything runs on one asyncio event loop.  A coroutine runs until it   *)
(* awaits a browser operation, so one step of the model is the completion  *)
(* of the awaited operation a coroutine is suspended in, followed by the   *)
(* synchronous code up to its next await.  pc[p] names the await coroutine *)
(* p is suspended in.  config_manager calls are synchronous.               *)
(*                                                                         *)
(* The remote site is the environment: what a navigation lands on, whether *)
(* a passcode is requested, whether a browser call times out, are choices. *)
(***************************************************************************)

\* Coroutines that can be in flight together: each slot carries one HTTP
\* request with the background task it schedules, or one scheduler tick
\* with the run it awaits inline.
Procs == {"p1", "p2"}
Main == "p1"
Second == "p2"

\* automation.py:462  max_retries = 30
max_retries == 30
\* automation.py:379  for _ in range(10)
nav_iterations == 10
\* Logical clock for last_run: the number of successful ingestions stamped.
MaxRuns == 1

Emails == {"", "user"}
\* schedule_time is kept as the fields of the stored string "HH:MM".
ScheduleTimes == {<<11, 0>>}
\* Wall-clock readings a tick can see (hour, minute, second).
Times ==
    { [h |-> 10, m |-> 55, s |-> 0], [h |-> 11, m |-> 0, s |-> 0],
      [h |-> 11, m |-> 0, s |-> 30], [h |-> 11, m |-> 5, s |-> 0],
      [h |-> 11, m |-> 7, s |-> 0] }

VARIABLES
    cfg,        \* status store record (oura_config.json)
    auto,       \* the OuraAutomator singleton
    file,       \* the StorageState file oura_session.json exists
    auth,       \* the live browser context holds an authenticated session
    installed,  \* the Chromium directory is populated
    started,    \* the lifespan startup has run
    store,      \* the Status Store's files, lock and callers (config.py)
    pc,         \* per coroutine: the await it is suspended in
    loc,        \* per coroutine: its local variables and what it has done
    effects,    \* what the step just taken did to the session's resources
    sched       \* what the lifespan or the scheduler did in the step just taken

vars == <<cfg, auto, file, auth, installed, started, store, pc, loc, effects,
          sched>>

\* A step that writes no StorageState file and launches nothing.
NoEffects ==
    [saves |-> {}, orphaned |-> FALSE, click |-> "-", calls |-> <<>>, form |-> FALSE]

\* A step that is neither the startup nor a scheduler tick.
NoSched ==
    [ticked |-> FALSE, now |-> [h |-> 0, m |-> 0, s |-> 0], caught |-> FALSE,
     reset |-> FALSE]

----------------------------------------------------------------------------
\* Status store

IdleOrError == {"Idle", "Error"}

\* main.py:355  "Waiting" in cfg.get("status", "")
HasWaiting(s) == s \in {"Waiting for OTP..."}

\* next_run: None, no tick has stored one yet.
NoNextRun == [day |-> 0, h |-> -1, m |-> -1]

default_config ==
    [ status |-> "Idle", is_active |-> TRUE, email |-> "",
      schedule_time |-> <<11, 0>>, last_run |-> 0, next_run |-> NoNextRun ]

\* update_status(status): merge, only the status key changes.
update_status(c, s) == [c EXCEPT !.status = s]

\* update_status(status, message=m).  The message key is only ever written,
\* never read by the program: the record kept here leaves it out.
update_status_msg(c, s, m) == update_status(c, s)

----------------------------------------------------------------------------
\* OuraAutomator

new_automator ==
    [ init |-> FALSE, pw |-> "none", browser |-> "none", context |-> "none",
      page |-> "none", url |-> "blank", email |-> "" ]

Closed(x) == IF x = "none" THEN "none" ELSE "closed"

\* URLs that contain base_url.
InBase == {"home", "login", "otp", "export"}
\* "login" in url or "authn" in url
OnLogin(u) == u \in {"login", "otp"}

\* cleanup: close context, browser, playwright; clear the flag.  The
\* attributes keep their (closed) objects.  The URL a closed page still
\* reports is never acted on (every reader first awaits a call on the page,
\* which raises), so it is not kept.
\* A cleanup that calls close() and stop() without looking at what it holds:
\* the first attribute that is None raises, and the rest is not reached.
cleanup_run_unguarded(a) ==
    IF a.context = "none"
    THEN [auto |-> a, raised |-> TRUE]
    ELSE IF a.browser = "none"
    THEN [auto |-> [a EXCEPT !.context = "closed", !.page = Closed(@),
                             !.url = "blank"],
          raised |-> TRUE]
    ELSE IF a.pw = "none"
    THEN [auto |-> [a EXCEPT !.context = "closed", !.page = Closed(@),
                             !.browser = "closed", !.url = "blank"],
          raised |-> TRUE]
    ELSE [auto |-> [a EXCEPT !.context = "closed", !.page = Closed(@),
                             !.browser = "closed", !.pw = "closed",
                             !.init = FALSE, !.url = "blank"],
          raised |-> FALSE]

\* cleanup as [auto, raised]: each of context, browser, playwright is closed
\* when the attribute holds an object (closing a closed one does nothing),
\* skipped when it is None; then the flag is cleared.
cleanup_run(a) ==
    [auto |-> [a EXCEPT !.context = Closed(@), !.page = Closed(@),
                        !.browser = Closed(@), !.pw = Closed(@),
                        !.init = FALSE, !.url = "blank"],
     raised |-> FALSE]

cleanup(a) == cleanup_run(a).auto

\* A clear_session that reports a removed file whether or not there was one.
clear_session_run_always_true(a, f) ==
    [auto |-> cleanup(a), file |-> FALSE, ret |-> TRUE]

\* clear_session with the StorageState file present (f) or not, as
\* [auto, file, ret]: cleanup, then the file is removed if it exists; the
\* result tells whether it did.
clear_session_run(a, f) ==
    [auto |-> cleanup(a), file |-> FALSE, ret |-> f]

\* _ensure_browser_installed, first part: returns at once when the directory
\* is populated, else announces the installation before awaiting it.
ensure_installed_cfg(c) ==
    IF installed THEN c
    ELSE update_status(c, "Installing dependency (Chromium)...")

\* initialize up to its first await.
initialize_begin_auto(a, c) ==
    IF installed /\ a.email = "" THEN [a EXCEPT !.email = c.email] ELSE a

\* How the awaited part of initialize can end.
LaunchOutcomes(inst) ==
    {"ok", "ok_retry", "fail_launch", "fail_context"}
        \cup (IF inst THEN {"fail_install"} ELSE {})

LaunchRaises(o) == o \in {"fail_install", "fail_launch", "fail_context"}

initialize_end_cfg(c, o) ==
    IF o \in {"ok_retry", "fail_launch"}
    THEN update_status(c, "Installing dependency (Chromium)...")
    ELSE c

initialize_end_auto(a, c, o, inst) ==
    LET a1 == IF inst /\ o # "fail_install" /\ a.email = ""
              THEN [a EXCEPT !.email = c.email] ELSE a
    IN  CASE o = "fail_install" -> a
          [] o = "fail_launch"  -> [a1 EXCEPT !.pw = "live"]
          [] o = "fail_context" -> [a1 EXCEPT !.pw = "live", !.browser = "live"]
          [] OTHER -> [a1 EXCEPT !.pw = "live", !.browser = "live",
                                 !.context = "live", !.page = "live",
                                 !.url = "blank", !.init = TRUE]

\* The call launches a browser, or opens a context, while the attribute it
\* assigns still holds a live one: that one is no longer referenced or closed.
initialize_orphans(a, o) ==
    \/ o \in {"ok", "ok_retry", "fail_context"} /\ a.browser = "live"
    \/ o \in {"ok", "ok_retry"} /\ a.context = "live"

\* A fresh context is authenticated only through a loaded StorageState.
LaunchAuth(o) ==
    IF o \in {"ok", "ok_retry"}
    THEN (IF file THEN BOOLEAN ELSE {FALSE})
    ELSE {auth}

LaunchInstalled(o) == IF o = "fail_install" THEN installed ELSE TRUE

\* _is_logged_in
is_logged_in(a) == a.page # "none" /\ a.url = "home"

----------------------------------------------------------------------------
\* The remote site, as seen through the one page of the session.
\* A world is what a browser call can change: the page's URL class, whether
\* the context is authenticated, and the StorageState file.  form is set
\* by a call that has filled in or submitted the login form.

World == [url |-> auto.url, auth |-> auth, file |-> file, saves |-> {}, form |-> FALSE]

\* page.goto(base_url): the account home when authenticated, else the
\* login page (an expired session is found out here).
goto_base(w) ==
    {[w EXCEPT !.url = "login", !.auth = FALSE]}
        \cup (IF w.auth THEN {[w EXCEPT !.url = "home"]} ELSE {})

\* page.goto(export_url): the export page, a transient redirect to the
\* account home, some other page, or the login page.
goto_export(w) ==
    {[w EXCEPT !.url = "login", !.auth = FALSE]}
        \cup (IF w.auth
              THEN {[w EXCEPT !.url = u] : u \in {"export", "home", "other"}}
              ELSE {})

\* page.goto(base_url + "/login")
goto_login(w) ==
    {[w EXCEPT !.url = "login"]}
        \cup (IF w.auth THEN {[w EXCEPT !.url = "home"]} ELSE {})

\* save_context: writes the StorageState file when there is a context.
\* saves keeps the page and the session each write was made on.
save_context(w) ==
    [w EXCEPT !.file = TRUE, !.saves = @ \cup {[url |-> w.url, auth |-> w.auth]}]

\* A _perform_login_actions that saves the session as soon as the form has
\* been submitted.
perform_login_actions_saving_early(f) ==
    {[ret |-> "raise", w |-> f]}
        \cup (IF OnLogin(f.url)
              THEN { [ret |-> "otp_required",
                      w |-> save_context([f EXCEPT !.url = "otp"])],
                     [ret |-> "success",
                      w |-> save_context([f EXCEPT !.url = "home", !.auth = TRUE])] }
              ELSE {})

\* _perform_login_actions on the form page f: the email input is missing, a
\* password is required but not configured, or the login stays incomplete
\* (raise); the passcode field shows (otp_required); or the account home is
\* reached and the session saved (success).
perform_login_actions(f) ==
    {[ret |-> "raise", w |-> f]}
        \cup (IF OnLogin(f.url)
              THEN { [ret |-> "raise", w |-> [f EXCEPT !.form = TRUE]],
                     [ret |-> "otp_required",
                      w |-> [f EXCEPT !.url = "otp", !.form = TRUE]],
                     [ret |-> "success",
                      w |-> save_context([f EXCEPT !.url = "home", !.auth = TRUE,
                                                   !.form = TRUE])] }
              ELSE {})

\* A login() that goes to the form without asking for an email.
login_without_email_check(w, email) ==
    LET landed == IF w.url \in InBase THEN {w} ELSE goto_base(w)
        after(u) ==
            IF u.url = "home"
            THEN {[ret |-> "none", w |-> save_context(u)]}
            ELSE UNION { perform_login_actions(f) :
                            f \in (IF OnLogin(u.url) THEN {u} ELSE goto_login(u)) }
    IN  {[ret |-> "raise", w |-> w]} \cup UNION { after(u) : u \in landed }

\* login() on a live page: every way it can end, as [ret, w].  ret is
\* "none" (already logged in), "success", "otp_required" or "raise".
login(w, email) ==
    LET landed == IF w.url \in InBase THEN {w} ELSE goto_base(w)
        after(u) ==
            IF u.url = "home"
            THEN {[ret |-> "none", w |-> save_context(u)]}
            ELSE IF email = ""
            THEN {[ret |-> "raise", w |-> u]}
            ELSE UNION { perform_login_actions(f) :
                            f \in (IF OnLogin(u.url) THEN {u} ELSE goto_login(u)) }
    IN  {[ret |-> "raise", w |-> w]} \cup UNION { after(u) : u \in landed }

\* One iteration of the loop of _navigate_to_export_page from n = [w, login]:
\* the ways it ends the call ...
nav_ends(n, email) ==
    LET raised(w) == [ret |-> "raise", w |-> w, login |-> n.login, otp |-> FALSE,
                      exhausted |-> FALSE, iters |-> 0]
    IN  IF n.w.url = "export"
        THEN {[ret |-> "true", w |-> n.w, login |-> n.login, otp |-> FALSE,
               exhausted |-> FALSE, iters |-> 0]}
        ELSE IF OnLogin(n.w.url)
        THEN { IF o.ret = "otp_required"
               THEN [ret |-> "false", w |-> o.w, login |-> TRUE, otp |-> TRUE,
                     exhausted |-> FALSE, iters |-> 0]
               ELSE [ret |-> "raise", w |-> o.w, login |-> TRUE, otp |-> FALSE,
                     exhausted |-> FALSE, iters |-> 0] : o \in login(n.w, email) }
        ELSE {raised(n.w)}

\* ... and the ways it goes on to the next iteration.
nav_continues(n, email) ==
    IF n.w.url = "export" THEN {}
    ELSE IF OnLogin(n.w.url)
    THEN UNION { {[w |-> g, login |-> TRUE] : g \in goto_export(o.w)} :
                    o \in {x \in login(n.w, email) : x.ret \in {"none", "success"}} }
    ELSE IF n.w.url = "home"
    THEN {[w |-> g, login |-> n.login] : g \in goto_export(n.w)}
    ELSE {n}

\* A final check that reports success wherever the page is.
final_check_trusting(n) ==
    [ret |-> "true", w |-> n.w, login |-> n.login, otp |-> FALSE,
     exhausted |-> n.w.url # "export", iters |-> nav_iterations]

\* The final check, once the loop has run out of iterations.
final_check(n) ==
    [ret |-> IF n.w.url = "export" THEN "true" ELSE "false", w |-> n.w,
     login |-> n.login, otp |-> FALSE,
     exhausted |-> n.w.url # "export", iters |-> nav_iterations]

\* The loop with k iterations left; iters counts the classifications made.
RECURSIVE nav_loop(_, _, _)
nav_loop(k, N, email) ==
    IF N = {} THEN {}
    ELSE IF k = 0
    THEN { final_check(n) : n \in N }
    ELSE UNION { {[e EXCEPT !.iters = nav_iterations - k + 1] : e \in nav_ends(n, email)} :
                   n \in N }
            \cup nav_loop(k - 1, UNION { nav_continues(n, email) : n \in N }, email)

\* _navigate_to_export_page on a live page: every way it can end, as
\* [ret, w, login, otp, exhausted, iters].  login: login() was called; otp:
\* login() reported otp_required; exhausted: the loop ran out away from the
\* export page; iters: the classifications of the URL made in the loop.
navigate_counted(w, email) ==
    {[ret |-> "raise", w |-> w, login |-> FALSE, otp |-> FALSE, exhausted |-> FALSE,
      iters |-> 0]}
        \cup nav_loop(nav_iterations,
                      {[w |-> g, login |-> FALSE] : g \in goto_export(w)}, email)

\* The same, as its callers see it: without the count.
navigate_to_export_page(w, email) ==
    { [ret |-> o.ret, w |-> o.w, login |-> o.login, otp |-> o.otp,
       exhausted |-> o.exhausted] : o \in navigate_counted(w, email) }

\* What the site shows once a passcode has been filled in and submitted:
\* the account home (code accepted), its invalid-code text (code rejected),
\* or some other state.
otp_site_responses(w) ==
    { [w |-> [w EXCEPT !.url = "home", !.auth = TRUE], invalid |-> FALSE],
      [w |-> w, invalid |-> TRUE],
      [w |-> w, invalid |-> FALSE] }

\* A submit_otp whose missing-field fault is raised to the caller.
submit_otp_outcomes_raising(w) ==
    {[ret |-> "raise", w |-> w]}
        \cup (IF w.url = "otp"
              THEN { IF r.w.url = "home"
                     THEN [ret |-> "success", w |-> save_context(r.w)]
                     ELSE [ret |-> IF r.invalid THEN "invalid" ELSE "error",
                           w |-> r.w] : r \in otp_site_responses(w) }
              ELSE {})

\* A submit_otp that saves the session before it verifies the login.
submit_otp_outcomes_saving_first(w) ==
    {[ret |-> "error", w |-> w]}
        \cup (IF w.url = "otp"
              THEN { IF r.w.url = "home"
                     THEN [ret |-> "success", w |-> save_context(r.w)]
                     ELSE [ret |-> IF r.invalid THEN "invalid" ELSE "error",
                           w |-> save_context(r.w)] : r \in otp_site_responses(w) }
              ELSE {})

\* A submit_otp that goes back to the login form when the code is rejected.
submit_otp_outcomes_leaving(w) ==
    {[ret |-> "error", w |-> w]}
        \cup (IF w.url = "otp"
              THEN { IF r.w.url = "home"
                     THEN [ret |-> "success", w |-> save_context(r.w)]
                     ELSE [ret |-> IF r.invalid THEN "invalid" ELSE "error",
                           w |-> IF r.invalid THEN [r.w EXCEPT !.url = "login"]
                                 ELSE r.w] : r \in otp_site_responses(w) }
                   \cup { [ret |-> "error", w |-> r.w] : r \in otp_site_responses(w) }
              ELSE {})

\* submit_otp on a live page, as [ret, w].  The passcode field is there only
\* on the passcode page: without it, or when a browser call fails before
\* the code is submitted, the fault is caught (error).  After the submit the
\* session is saved when the page is the account home (success); else the
\* result is the invalid-code error or the unknown-state error; a fault
\* after the submit is caught as well.
submit_otp_outcomes(w) ==
    {[ret |-> "error", w |-> w]}
        \cup (IF w.url = "otp"
              THEN { IF r.w.url = "home"
                     THEN [ret |-> "success", w |-> save_context(r.w)]
                     ELSE [ret |-> IF r.invalid THEN "invalid" ELSE "error",
                           w |-> r.w] : r \in otp_site_responses(w) }
                   \cup { [ret |-> "error", w |-> r.w] : r \in otp_site_responses(w) }
              ELSE {})

----------------------------------------------------------------------------
\* Coroutines

Idle0 ==
    [ op |-> "-", task |-> "-", force |-> FALSE, via |-> "-", email |-> "",
      action |-> "-", i |-> 0, inst |-> FALSE, result |-> "-", resp |-> "-",
      next |-> "-",
      \* what the operation has done so far
      began |-> FALSE, from_idle |-> FALSE, wrote |-> FALSE, acted |-> FALSE,
      \* what the entry point did before returning (cleared by its caller)
      escaped |-> FALSE, nav_login |-> FALSE, nav_otp |-> FALSE,
      nav_fault |-> FALSE, exhausted |-> FALSE, dl_tried |-> FALSE,
      \* the generation wait of this run used up its retries
      timedout |-> FALSE,
      ingested |-> "-" ]

\* A coroutine at one of these has no await before its next step: nothing
\* else runs in between.
Committed == {"ret", "done"}

NoCommit == \A q \in Procs : pc[q] \notin Committed

\* Coroutine p is suspended in the await named where, and the loop is free
\* to resume it.
At(p, where) == pc[p] = where /\ NoCommit

\* A free slot takes the next request or tick; the second slot only what
\* arrives while the first is busy.
CanStart(p) ==
    /\ started
    /\ pc[p] = "idle"
    /\ NoCommit
    /\ p = Second => pc[Main] # "idle"

Set(p, newpc, l) ==
    /\ pc' = [pc EXCEPT ![p] = newpc]
    /\ loc' = [loc EXCEPT ![p] = l]

SetWorld(a, w) ==
    /\ auto' = [a EXCEPT !.url = w.url]
    /\ auth' = w.auth
    /\ file' = w.file
    /\ effects' = [NoEffects EXCEPT !.saves = w.saves, !.form = w.form]

\* The coroutine is done: the slot is free again.
Exit(p) == Set(p, "idle", Idle0)

\* A handler returns its response; next is the background task it added.
Respond(p, l, code, next) == Set(p, "done", [l EXCEPT !.resp = code, !.next = next])

\* await automator.initialize() with the flag clear: up to its first await.
CallInitialize(p, c, a, l, at) ==
    /\ cfg' = ensure_installed_cfg(c)
    /\ auto' = initialize_begin_auto(a, c)
    /\ Set(p, at, [l EXCEPT !.inst = ~installed, !.acted = TRUE,
                             !.wrote = @ \/ ~installed])
    /\ UNCHANGED <<file, auth, installed>>
    /\ effects' = NoEffects

OrchKind(task) == IF task \in {"rit", "sync"} THEN "request_new" ELSE "download_existing"

\* The except clause of the two entry points.
OnRaise(task) == IF OrchKind(task) = "request_new" THEN "none" ELSE "error"

\* request_new_export_and_download / download_existing_export up to the
\* first await: initialize when the flag is clear, else start navigating.
OrchBegin(p, c, a, l) ==
    IF a.init
    THEN /\ cfg' = c
         /\ auto' = a
         /\ Set(p, "nav", [l EXCEPT !.acted = TRUE])
         /\ UNCHANGED <<file, auth, installed>>
         /\ effects' = NoEffects
    ELSE CallInitialize(p, c, a, l, "orch_init")

\* The entry point returns res to its caller.
OrchReturn(p, l, res) == Set(p, "ret", [l EXCEPT !.result = res])

\* The caller has consumed the result.
Returned(l) ==
    [l EXCEPT !.result = "-", !.escaped = FALSE, !.nav_login = FALSE,
              !.nav_otp = FALSE, !.nav_fault = FALSE, !.exhausted = FALSE,
              !.dl_tried = FALSE, !.i = 0]

----------------------------------------------------------------------------
\* main.py: lifespan

\* A startup that leaves the stored status as it finds it.
Startup_keeping_status ==
    /\ ~started
    /\ started' = TRUE
    /\ sched' = [NoSched EXCEPT !.reset = cfg.status \notin {"Idle", "Error"}]
    /\ cfg' = cfg
    /\ UNCHANGED <<auto, file, auth, installed, pc, loc, store>>
    /\ effects' = NoEffects

\* lifespan, up to the yield: a status other than Idle and Error is reset
\* to Idle, then the scheduler task is created.
Startup ==
    /\ ~started
    /\ started' = TRUE
    /\ sched' = [NoSched EXCEPT !.reset = cfg.status \notin {"Idle", "Error"}]
    /\ cfg' = IF cfg.status \notin {"Idle", "Error"}
              THEN update_status(cfg, "Idle") ELSE cfg
    /\ UNCHANGED <<auto, file, auth, installed, pc, loc, store>>
    /\ effects' = NoEffects

----------------------------------------------------------------------------
\* main.py: run_ingestion_task

\* A run_ingestion_task that starts whether or not the schedule is active.
RitBegin_ignoring_is_active(p, c, l) ==
    LET c1 == update_status(c, "Initializing...")
        l1 == [l EXCEPT !.task = "rit", !.email = c.email, !.wrote = TRUE]
    IN  IF auto.init
        THEN /\ cfg' = c1
             /\ auto' = [auto EXCEPT !.email = c.email]
             /\ Set(p, "rit_login", [l1 EXCEPT !.acted = TRUE])
             /\ UNCHANGED <<file, auth, installed>>
             /\ effects' = NoEffects
        ELSE CallInitialize(p, c1, auto, l1, "rit_init")

\* Up to the first await.  c is the store as the caller left it.
RitBegin(p, c, l) ==
    IF ~l.force /\ ~c.is_active
    THEN /\ cfg' = c
         /\ Exit(p)
         /\ UNCHANGED <<auto, file, auth, installed>>
         /\ effects' = NoEffects
    ELSE LET c1 == update_status(c, "Initializing...")
             l1 == [l EXCEPT !.task = "rit", !.email = c.email, !.wrote = TRUE]
         IN  IF auto.init
             THEN /\ cfg' = c1
                  /\ auto' = [auto EXCEPT !.email = c.email]
                  /\ Set(p, "rit_login", [l1 EXCEPT !.acted = TRUE])
                  /\ UNCHANGED <<file, auth, installed>>
                  /\ effects' = NoEffects
             ELSE CallInitialize(p, c1, auto, l1, "rit_init")

\* The background task added by run-now or submit-otp starts.
RitStart(p) ==
    /\ At(p, "rit_start")
    /\ RitBegin(p, cfg, loc[p])
    /\ UNCHANGED <<started, store>>
    /\ sched' = NoSched

\* except Exception: the error status, then await cleanup.
RitExcept(p, c, l) ==
    /\ cfg' = update_status(c, "Error: ...")
    /\ Set(p, "cleanup", l)

RitInitDone(p) ==
    /\ At(p, "rit_init")
    /\ \E o \in LaunchOutcomes(loc[p].inst) : \E au \in LaunchAuth(o) :
          LET c1 == initialize_end_cfg(cfg, o)
              a1 == initialize_end_auto(auto, cfg, o, loc[p].inst)
          IN  /\ installed' = LaunchInstalled(o)
              /\ effects' = [NoEffects EXCEPT !.orphaned = initialize_orphans(auto, o)]
              /\ auth' = au
              /\ IF LaunchRaises(o)
                 THEN /\ auto' = a1
                      /\ RitExcept(p, c1, loc[p])
                 ELSE /\ auto' = [a1 EXCEPT !.email = loc[p].email]
                      /\ cfg' = c1
                      /\ Set(p, "rit_login", loc[p])
    /\ UNCHANGED <<file, started, store>>
    /\ sched' = NoSched

RitLoginDone(p) ==
    /\ At(p, "rit_login")
    /\ IF auto.page # "live"
       THEN /\ RitExcept(p, cfg, loc[p])
            /\ UNCHANGED <<auto, file, auth>>
            /\ effects' = NoEffects
       ELSE \E o \in login(World, auto.email) :
              /\ SetWorld(auto, o.w)
              /\ CASE o.ret = "raise" -> RitExcept(p, cfg, loc[p])
                   [] o.ret = "otp_required" ->
                        /\ cfg' = update_status(cfg, "Waiting for OTP...")
                        /\ Exit(p)
                   [] OTHER ->
                        /\ cfg' = update_status(cfg, "Running Automation...")
                        /\ Set(p, "nav", loc[p])
    /\ UNCHANGED <<installed, started, store>>
    /\ sched' = NoSched

----------------------------------------------------------------------------
\* automation.py: the two entry points, shared by their callers

OrchInitDone(p) ==
    /\ At(p, "orch_init")
    /\ \E o \in LaunchOutcomes(loc[p].inst) : \E au \in LaunchAuth(o) :
          /\ installed' = LaunchInstalled(o)
          /\ effects' = [NoEffects EXCEPT !.orphaned = initialize_orphans(auto, o)]
          /\ auth' = au
          /\ cfg' = initialize_end_cfg(cfg, o)
          /\ auto' = initialize_end_auto(auto, cfg, o, loc[p].inst)
          /\ IF LaunchRaises(o)
             THEN \* initialize is called outside the try: the fault escapes
                  Set(p, "ret", [loc[p] EXCEPT !.result = "raise", !.escaped = TRUE])
             ELSE Set(p, "nav", loc[p])
    /\ UNCHANGED <<file, started, store>>
    /\ sched' = NoSched

\* What a failed navigation becomes.
NavFailed(task, url) ==
    IF OrchKind(task) = "request_new"
    THEN (IF OnLogin(url) THEN "otp_required" ELSE "none")
    ELSE "otp_required"

Navigate(p) ==
    /\ At(p, "nav")
    /\ IF auto.page # "live"
       THEN /\ OrchReturn(p, [loc[p] EXCEPT !.nav_fault = TRUE], OnRaise(loc[p].task))
            /\ UNCHANGED <<auto, file, auth>>
            /\ effects' = NoEffects
       ELSE \E o \in navigate_to_export_page(World, auto.email) :
              LET l == [loc[p] EXCEPT !.nav_login = o.login, !.nav_otp = o.otp,
                                      !.nav_fault = (o.ret = "raise"),
                                      !.exhausted = o.exhausted]
              IN  /\ SetWorld(auto, o.w)
                  /\ CASE o.ret = "raise" -> OrchReturn(p, l, OnRaise(l.task))
                       [] o.ret = "false" -> OrchReturn(p, l, NavFailed(l.task, o.w.url))
                       [] OTHER ->
                            Set(p, IF OrchKind(l.task) = "request_new"
                                   THEN "click" ELSE "download", l)
    /\ UNCHANGED <<cfg, installed, started, store>>
    /\ sched' = NoSched

\* What the click-request step can meet: the button is clicked; it is
\* disabled or aria-disabled; no button is visible; the click itself fails;
\* or one of the probes of the page (is_visible, get_attribute, the pause for
\* hydration) raises.
ClickOutcomes == {"clicked", "disabled", "missing", "click_failed", "raise"}

\* A click step whose click is made outside any handler.
click_request_result_uncaught(o) ==
    CASE o = "clicked" -> "true"
      [] o \in {"click_failed", "raise"} -> "raise"
      [] OTHER -> "false"

\* _click_request_export_button: True, False, or the fault of a probe,
\* which is not caught here.
click_request_result(o) ==
    CASE o = "clicked" -> "true"
      [] o = "raise" -> "raise"
      [] OTHER -> "false"

\* request_new_export_and_download, step 2: on True or False alike it goes
\* on to the wait; a fault ends the entry point with no file.
ClickRequest(p) ==
    /\ At(p, "click")
    /\ IF auto.page # "live"
       THEN /\ OrchReturn(p, loc[p], "none")
            /\ effects' = NoEffects
       ELSE \E o \in ClickOutcomes :
              /\ effects' = [NoEffects EXCEPT !.click = o]
              /\ IF click_request_result(o) = "raise"
                 THEN OrchReturn(p, loc[p], "none")
                 ELSE Set(p, "wait", [loc[p] EXCEPT !.i = 0])
    /\ UNCHANGED <<cfg, auto, file, auth, installed, started, store>>
    /\ sched' = NoSched

\* A wait that, out of retries, goes on to the download all the same.
WaitForProcessing_downloads(p) ==
    /\ At(p, "wait")
    /\ IF auto.page # "live"
       THEN OrchReturn(p, loc[p], "none")
       ELSE \E o \in {"ready", "pending", "raise"} :
              CASE o = "ready" -> Set(p, "download", [loc[p] EXCEPT !.i = 0])
                [] o = "raise" -> OrchReturn(p, [loc[p] EXCEPT !.i = 0], "none")
                [] OTHER ->
                     IF loc[p].i + 1 < max_retries
                     THEN Set(p, "wait", [loc[p] EXCEPT !.i = @ + 1])
                     ELSE Set(p, "download", [loc[p] EXCEPT !.i = 0, !.timedout = TRUE])
    /\ UNCHANGED <<cfg, auto, file, auth, installed, started, store>>
    /\ effects' = NoEffects
    /\ sched' = NoSched

\* An iteration that sleeps and reloads before it looks at the button.
wait_calls_reloading_first(o) ==
    CASE o = "ready" -> {<<"sleep", "reload", "load_state", "poll">>}
      [] o = "pending" -> {<<"sleep", "reload", "load_state", "poll">>}
      [] OTHER -> {<<"sleep">>, <<"sleep", "reload">>,
                   <<"sleep", "reload", "load_state">>,
                   <<"sleep", "reload", "load_state", "poll">>}

\* The page calls one iteration of _wait_for_processing makes, in order:
\* the poll of the button (is_visible, is_enabled); when the button is not
\* ready, wait_for_timeout, reload and wait_for_load_state.  A fault ends
\* the iteration at the call that raised it.
wait_calls(o) ==
    CASE o = "ready" -> {<<"poll">>}
      [] o = "pending" -> {<<"poll", "sleep", "reload", "load_state">>}
      [] OTHER -> {<<"poll">>, <<"poll", "sleep">>, <<"poll", "sleep", "reload">>,
                   <<"poll", "sleep", "reload", "load_state">>}

\* _wait_for_processing: one iteration of the loop.
WaitForProcessing(p) ==
    /\ At(p, "wait")
    /\ IF auto.page # "live"
       THEN /\ OrchReturn(p, loc[p], "none")
            /\ effects' = NoEffects
       ELSE \E o \in {"ready", "pending", "raise"} :
              /\ \E c \in wait_calls(o) : effects' = [NoEffects EXCEPT !.calls = c]
              /\ CASE o = "ready" -> Set(p, "download", [loc[p] EXCEPT !.i = 0])
                   [] o = "raise" -> OrchReturn(p, [loc[p] EXCEPT !.i = 0], "none")
                   [] OTHER ->
                        IF loc[p].i + 1 < max_retries
                        THEN Set(p, "wait", [loc[p] EXCEPT !.i = @ + 1])
                        ELSE OrchReturn(p, [loc[p] EXCEPT !.i = 0, !.timedout = TRUE],
                                        "none")
    /\ UNCHANGED <<cfg, auto, file, auth, installed, started, store>>
    /\ sched' = NoSched

\* _download_file
DownloadFile(p) ==
    /\ At(p, "download")
    /\ LET l == [loc[p] EXCEPT !.dl_tried = TRUE]
       IN  IF auto.page # "live"
           THEN OrchReturn(p, l, OnRaise(l.task))
           ELSE \E o \in {"saved", "absent", "raise"} :
                  CASE o = "saved" -> OrchReturn(p, l, "path")
                    [] o = "absent" -> OrchReturn(p, l, "none")
                    [] OTHER -> OrchReturn(p, l, OnRaise(l.task))
    /\ UNCHANGED <<cfg, auto, file, auth, installed, started, store>>
    /\ effects' = NoEffects
    /\ sched' = NoSched

\* await automator.cleanup(), the last await of a run.  With its context
\* closed the session is no longer authenticated anywhere but in the file.
Cleanup(p) ==
    /\ At(p, "cleanup")
    /\ auto' = cleanup(auto)
    /\ auth' = FALSE
    /\ Exit(p)
    /\ UNCHANGED <<cfg, file, installed, started, store>>
    /\ effects' = NoEffects
    /\ sched' = NoSched

----------------------------------------------------------------------------
\* The callers' code after the entry point has returned

\* A process_ingestion that stamps last_run when the ingestion has failed too.
process_ingestion_stamping_failure(c, res) ==
    (IF res = "path" /\ c.last_run < MaxRuns
     THEN {[update_status(c, "Idle") EXCEPT !.last_run = @ + 1]}
     ELSE {})
        \cup {[update_status(c, "Ingestion Failed: ...")
                 EXCEPT !.last_run = IF @ < MaxRuns THEN @ + 1 ELSE @]}

\* main.py: process_ingestion.  parse_zip is synchronous.
process_ingestion(c, res) ==
    (IF res = "path" /\ c.last_run < MaxRuns
     THEN {[update_status(c, "Idle") EXCEPT !.last_run = @ + 1]}
     ELSE {})
        \cup {update_status(c, "Ingestion Failed: ...")}

RitReturn(p) ==
    /\ pc[p] = "ret" /\ loc[p].task = "rit"
    /\ LET res == loc[p].result
       IN  CASE res = "otp_required" ->
                  /\ cfg' = update_status(cfg, "Waiting for OTP...")
                  /\ Exit(p)
             [] res = "path" ->
                  \E c \in process_ingestion(cfg, res) :
                     /\ cfg' = c
                     /\ Set(p, "cleanup", [Returned(loc[p]) EXCEPT !.ingested = res])
             [] res = "raise" -> RitExcept(p, cfg, Returned(loc[p]))
             [] OTHER ->
                  /\ cfg' = update_status(cfg, "Failed to download export.")
                  /\ Set(p, "cleanup", Returned(loc[p]))
    /\ UNCHANGED <<auto, file, auth, installed, started, store>>
    /\ effects' = NoEffects
    /\ sched' = NoSched

\* routes.py: run_full_sync_task after the await; finally: cleanup.
SyncReturn(p) ==
    /\ pc[p] = "ret" /\ loc[p].task = "sync"
    /\ LET res == loc[p].result
       IN  CASE res = "otp_required" ->
                  /\ cfg' = update_status_msg(cfg, "Error",
                               "OTP required. Please login manually in settings.")
                  /\ Set(p, "cleanup", Returned(loc[p]))
             [] res = "path" ->
                  /\ \/ /\ cfg.last_run < MaxRuns
                        /\ cfg' = [update_status_msg(cfg, "Idle",
                                       "Sync and ingestion complete!")
                                     EXCEPT !.last_run = @ + 1]
                     \/ cfg' = update_status_msg(cfg, "Error", "Sync failed: ...")
                  /\ Set(p, "cleanup", [Returned(loc[p]) EXCEPT !.ingested = res])
             [] res = "raise" ->
                  /\ cfg' = update_status_msg(cfg, "Error", "Sync failed: ...")
                  /\ Set(p, "cleanup", Returned(loc[p]))
             [] OTHER ->
                  /\ cfg' = update_status_msg(cfg, "Error",
                               "No file downloaded (timeout?)")
                  /\ Set(p, "cleanup", Returned(loc[p]))
    /\ UNCHANGED <<auto, file, auth, installed, started, store>>
    /\ effects' = NoEffects
    /\ sched' = NoSched

\* main.py: run_download_existing_task after the await.
DltReturn(p) ==
    /\ pc[p] = "ret" /\ loc[p].task = "dlt"
    /\ LET res == loc[p].result
       IN  CASE res = "otp_required" ->
                  /\ cfg' = update_status(cfg, "Waiting for OTP...")
                  /\ Exit(p)
             [] res \in {"path", "error"} ->
                  \E c \in process_ingestion(cfg, res) :
                     /\ cfg' = c
                     /\ Set(p, "cleanup", [Returned(loc[p]) EXCEPT !.ingested = res])
             [] OTHER ->
                  /\ cfg' = cfg
                  /\ Set(p, "cleanup", Returned(loc[p]))
    /\ UNCHANGED <<auto, file, auth, installed, started, store>>
    /\ effects' = NoEffects
    /\ sched' = NoSched

\* routes.py: download_export after the await: no cleanup on any path.
DlrReturn(p) ==
    /\ pc[p] = "ret" /\ loc[p].task = "dlr"
    /\ LET res == loc[p].result
       IN  CASE res \in {"error", "none", "raise"} ->
                  Respond(p, Returned(loc[p]), "500", "-")
             [] res = "otp_required" ->
                  Respond(p, [Returned(loc[p]) EXCEPT !.ingested = res], "500", "-")
             [] OTHER ->
                  \E code \in {"200", "500"} :
                     Respond(p, [Returned(loc[p]) EXCEPT !.ingested = res], code, "-")
    /\ UNCHANGED <<cfg, auto, file, auth, installed, started, store>>
    /\ effects' = NoEffects
    /\ sched' = NoSched

----------------------------------------------------------------------------
\* main.py: background_worker

\* A parse that checks the number of fields and not their ranges.
schedule_parses_unranged(st) == Len(st) = 2

\* sh, sm = map(int, schedule_time.split(":")) and now.replace(hour=sh,
\* minute=sm): both raise ValueError unless there are two fields, in range.
schedule_parses(st) == Len(st) = 2 /\ st[1] \in 0..23 /\ st[2] \in 0..59

\* A loop without handlers: a fault ends the scheduler task.
tick_fault_unhandled(site) == "none"

\* The handler of background_worker that takes a fault raised at site: the
\* inner except for the schedule arithmetic and the awaited run, the outer
\* one for the rest of the iteration.  After either the loop sleeps and
\* iterates again.
tick_fault(site) == IF site \in {"schedule", "run"} THEN "inner" ELSE "outer"

\* A comparison of run_today with the reading's hour and minute alone.
After_by_minute(now, st) ==
    \/ now.h > st[1]
    \/ now.h = st[1] /\ now.m > st[2]

\* now > run_today, run_today being today at schedule_time, second and
\* microsecond 0.  s is the reading's part below the minute.
After(now, st) ==
    \/ now.h > st[1]
    \/ now.h = st[1] /\ now.m > st[2]
    \/ now.h = st[1] /\ now.m = st[2] /\ now.s > 0

next_run(now, st) == [day |-> IF After(now, st) THEN 1 ELSE 0, h |-> st[1], m |-> st[2]]

\* A scheduler that suspends the schedule once it has looked at it.
tick_writes_pausing(c, now) ==
    [c EXCEPT !.next_run = next_run(now, c.schedule_time), !.is_active = FALSE]

\* update_status(cfg.get("status", "Idle"), next_run=...): the status as just
\* read, and next_run.
tick_writes(c, now) ==
    [update_status(c, c.status) EXCEPT !.next_run = next_run(now, c.schedule_time)]

\* The scheduler task is alive: no fault has ended its loop.
WorkerAlive == \A q \in Procs : pc[q] # "crashed"

\* One iteration of the loop, with the run it awaits, the clock reading
\* one of T.
TickOn(p, T) ==
    /\ CanStart(p)
    /\ WorkerAlive
    /\ \A q \in Procs : loc[q].op # "tick"
    /\ \E now \in T :
          LET st == cfg.schedule_time
              c1 == tick_writes(cfg, now)
              daily == now.h = st[1] /\ now.m = st[2]
              poll == HasWaiting(cfg.status) /\ now.m % 5 = 0
              l == [Idle0 EXCEPT !.op = "tick", !.began = TRUE,
                                 !.from_idle = cfg.status \in IdleOrError,
                                 !.via = IF daily THEN "daily" ELSE "poll"]
              seen == [NoSched EXCEPT !.ticked = TRUE, !.now = now]
          IN  IF ~schedule_parses(st)
              THEN \* ValueError: nothing is written and nothing is run
                   /\ sched' = [seen EXCEPT !.caught = TRUE]
                   /\ IF tick_fault("schedule") = "none"
                      THEN Set(p, "crashed", [Idle0 EXCEPT !.op = "tick"])
                      ELSE UNCHANGED <<pc, loc>>
                   /\ UNCHANGED <<cfg, auto, file, auth, installed>>
                   /\ effects' = NoEffects
              ELSE /\ sched' = seen
                   /\ IF daily \/ poll
                      THEN RitBegin(p, c1, l)
                      ELSE /\ cfg' = c1
                           /\ UNCHANGED <<auto, file, auth, installed, pc, loc>>
                           /\ effects' = NoEffects
    /\ UNCHANGED <<started, store>>

Tick(p) == TickOn(p, Times)

----------------------------------------------------------------------------
\* HTTP handlers and the background tasks they add

\* The response is sent; a background task added by the handler runs next.
Reply(p) ==
    /\ pc[p] = "done"
    /\ IF loc[p].next = "-"
       THEN Exit(p)
       ELSE Set(p, CASE loc[p].next = "rit" -> "rit_start"
                     [] loc[p].next = "sync" -> "sync_start"
                     [] OTHER -> "dlt_start",
                [Idle0 EXCEPT !.op = loc[p].op, !.force = TRUE,
                              !.began = loc[p].began, !.from_idle = loc[p].from_idle,
                              !.wrote = loc[p].wrote, !.acted = loc[p].acted])
    /\ UNCHANGED <<cfg, auto, file, auth, installed, started, store>>
    /\ effects' = NoEffects
    /\ sched' = NoSched

\* main.py: POST /api/automation/run-now
RunNow(p) ==
    /\ CanStart(p)
    /\ LET c1 == update_status(cfg, "Starting manual run...")
           l == [Idle0 EXCEPT !.op = "run_now", !.began = TRUE, !.wrote = TRUE,
                              !.from_idle = cfg.status \in IdleOrError,
                              !.email = cfg.email]
       IN  IF auto.init
           THEN /\ cfg' = c1
                /\ auto' = [auto EXCEPT !.email = cfg.email]
                /\ Respond(p, l, "started", "rit")
                /\ UNCHANGED <<file, auth, installed>>
                /\ effects' = NoEffects
           ELSE CallInitialize(p, c1, auto, l, "rn_init")
    /\ UNCHANGED <<started, store>>
    /\ sched' = NoSched

RnInitDone(p) ==
    /\ At(p, "rn_init")
    /\ \E o \in LaunchOutcomes(loc[p].inst) : \E au \in LaunchAuth(o) :
          LET a1 == initialize_end_auto(auto, cfg, o, loc[p].inst)
          IN  /\ installed' = LaunchInstalled(o)
              /\ effects' = [NoEffects EXCEPT !.orphaned = initialize_orphans(auto, o)]
              /\ auth' = au
              /\ cfg' = initialize_end_cfg(cfg, o)
              /\ IF LaunchRaises(o)
                 THEN /\ auto' = a1
                      /\ Respond(p, loc[p], "error", "-")
                 ELSE /\ auto' = [a1 EXCEPT !.email = loc[p].email]
                      /\ Respond(p, loc[p], "started", "rit")
    /\ UNCHANGED <<file, started, store>>
    /\ sched' = NoSched

\* A request-export that schedules the full sync whatever the status.
request_export_unguarded(p) ==
    /\ CanStart(p)
    /\ LET l == [Idle0 EXCEPT !.op = "request_export"]
       IN  IF FALSE
           THEN Respond(p, l, "409", "-")
           ELSE Respond(p, [l EXCEPT !.began = TRUE,
                                     !.from_idle = cfg.status \in IdleOrError],
                        "200", "sync")
    /\ UNCHANGED <<cfg, auto, file, auth, installed, started, store>>
    /\ effects' = NoEffects
    /\ sched' = NoSched

\* routes.py: POST /api/automation/request-export
request_export(p) ==
    /\ CanStart(p)
    /\ LET l == [Idle0 EXCEPT !.op = "request_export"]
       IN  IF cfg.status = "Processing"
           THEN Respond(p, l, "409", "-")
           ELSE Respond(p, [l EXCEPT !.began = TRUE,
                                     !.from_idle = cfg.status \in IdleOrError],
                        "200", "sync")
    /\ UNCHANGED <<cfg, auto, file, auth, installed, started, store>>
    /\ effects' = NoEffects
    /\ sched' = NoSched

\* routes.py: run_full_sync_task up to the await.
SyncStart(p) ==
    /\ At(p, "sync_start")
    /\ OrchBegin(p,
                 update_status_msg(cfg, "Processing",
                    "Requesting and waiting for export (this may take hours)..."),
                 auto,
                 [loc[p] EXCEPT !.task = "sync", !.wrote = TRUE])
    /\ UNCHANGED <<started, store>>
    /\ sched' = NoSched

\* main.py: POST /api/automation/download-latest
DownloadLatest(p) ==
    /\ CanStart(p)
    /\ Respond(p, [Idle0 EXCEPT !.op = "download_latest", !.began = TRUE,
                                 !.from_idle = cfg.status \in IdleOrError],
               "started", "dlt")
    /\ UNCHANGED <<cfg, auto, file, auth, installed, started, store>>
    /\ effects' = NoEffects
    /\ sched' = NoSched

\* main.py: run_download_existing_task up to its first await.
DltStart(p) ==
    /\ At(p, "dlt_start")
    /\ LET l == [loc[p] EXCEPT !.task = "dlt", !.email = cfg.email]
       IN  IF auto.init
           THEN /\ auto' = [auto EXCEPT !.email = cfg.email]
                /\ Set(p, "nav", [l EXCEPT !.acted = TRUE])
                /\ UNCHANGED <<cfg, file, auth, installed>>
                /\ effects' = NoEffects
           ELSE CallInitialize(p, cfg, auto, l, "dlt_init")
    /\ UNCHANGED <<started, store>>
    /\ sched' = NoSched

DltInitDone(p) ==
    /\ At(p, "dlt_init")
    /\ \E o \in LaunchOutcomes(loc[p].inst) : \E au \in LaunchAuth(o) :
          LET a1 == initialize_end_auto(auto, cfg, o, loc[p].inst)
          IN  /\ installed' = LaunchInstalled(o)
              /\ effects' = [NoEffects EXCEPT !.orphaned = initialize_orphans(auto, o)]
              /\ auth' = au
              /\ cfg' = initialize_end_cfg(cfg, o)
              /\ IF LaunchRaises(o)
                 THEN /\ auto' = a1
                      /\ Set(p, "cleanup", loc[p])
                 ELSE /\ auto' = [a1 EXCEPT !.email = loc[p].email]
                      /\ Set(p, "nav", loc[p])
    /\ UNCHANGED <<file, started, store>>
    /\ sched' = NoSched

\* routes.py: POST /api/automation/download
download_export(p) ==
    /\ CanStart(p)
    /\ OrchBegin(p, cfg, auto,
                 [Idle0 EXCEPT !.op = "download_route", !.task = "dlr", !.began = TRUE,
                               !.from_idle = cfg.status \in IdleOrError])
    /\ UNCHANGED <<started, store>>
    /\ sched' = NoSched

\* main.py: POST /api/automation/test-login
test_login(p) ==
    /\ CanStart(p)
    /\ LET c1 == update_status(cfg, "Testing Login...")
           l == [Idle0 EXCEPT !.op = "test_login", !.wrote = TRUE, !.email = cfg.email]
       IN  IF auto.init
           THEN /\ cfg' = c1
                /\ auto' = [auto EXCEPT !.email = cfg.email]
                /\ Set(p, "tl_login", [l EXCEPT !.acted = TRUE])
                /\ UNCHANGED <<file, auth, installed>>
                /\ effects' = NoEffects
           ELSE CallInitialize(p, c1, auto, l, "tl_init")
    /\ UNCHANGED <<started, store>>
    /\ sched' = NoSched

TlInitDone(p) ==
    /\ At(p, "tl_init")
    /\ \E o \in LaunchOutcomes(loc[p].inst) : \E au \in LaunchAuth(o) :
          LET a1 == initialize_end_auto(auto, cfg, o, loc[p].inst)
              c1 == initialize_end_cfg(cfg, o)
          IN  /\ installed' = LaunchInstalled(o)
              /\ effects' = [NoEffects EXCEPT !.orphaned = initialize_orphans(auto, o)]
              /\ auth' = au
              /\ IF LaunchRaises(o)
                 THEN /\ auto' = a1
                      /\ cfg' = update_status(c1, "Login Error: ...")
                      /\ Respond(p, loc[p], "error", "-")
                 ELSE /\ auto' = [a1 EXCEPT !.email = loc[p].email]
                      /\ cfg' = c1
                      /\ Set(p, "tl_login", loc[p])
    /\ UNCHANGED <<file, started, store>>
    /\ sched' = NoSched

TlLoginDone(p) ==
    /\ At(p, "tl_login")
    /\ IF auto.page # "live"
       THEN /\ cfg' = update_status(cfg, "Login Error: ...")
            /\ Respond(p, loc[p], "error", "-")
            /\ UNCHANGED <<auto, file, auth>>
            /\ effects' = NoEffects
       ELSE \E o \in login(World, auto.email) :
              /\ SetWorld(auto, o.w)
              /\ CASE o.ret = "raise" ->
                        /\ cfg' = update_status(cfg, "Login Error: ...")
                        /\ Respond(p, loc[p], "error", "-")
                   [] o.ret = "otp_required" ->
                        /\ cfg' = update_status(cfg, "Waiting for OTP...")
                        /\ Respond(p, loc[p], "otp_required", "-")
                   [] OTHER ->
                        /\ cfg' = update_status(cfg, "Login Check Complete.")
                        /\ Set(p, "tl_cleanup", loc[p])
    /\ UNCHANGED <<installed, started, store>>
    /\ sched' = NoSched

TlCleanup(p) ==
    /\ At(p, "tl_cleanup")
    /\ auto' = cleanup(auto)
    /\ auth' = FALSE
    /\ Respond(p, loc[p], "success", "-")
    /\ UNCHANGED <<cfg, file, installed, started, store>>
    /\ effects' = NoEffects
    /\ sched' = NoSched

\* routes.py: POST /api/automation/start-login -> automator.start_login
start_login(p) ==
    /\ CanStart(p)
    /\ \E e \in Emails :
          LET l == [Idle0 EXCEPT !.op = "start_login", !.email = e]
          IN  IF auto.init
              THEN /\ auto' = [auto EXCEPT !.email = e]
                   /\ Set(p, "sl_login", [l EXCEPT !.acted = TRUE])
                   /\ UNCHANGED <<cfg, file, auth, installed>>
                   /\ effects' = NoEffects
              ELSE CallInitialize(p, cfg, auto, l, "sl_init")
    /\ UNCHANGED <<started, store>>
    /\ sched' = NoSched

SlInitDone(p) ==
    /\ At(p, "sl_init")
    /\ \E o \in LaunchOutcomes(loc[p].inst) : \E au \in LaunchAuth(o) :
          LET a1 == initialize_end_auto(auto, cfg, o, loc[p].inst)
          IN  /\ installed' = LaunchInstalled(o)
              /\ effects' = [NoEffects EXCEPT !.orphaned = initialize_orphans(auto, o)]
              /\ auth' = au
              /\ cfg' = initialize_end_cfg(cfg, o)
              /\ IF LaunchRaises(o)
                 THEN /\ auto' = a1
                      /\ Respond(p, loc[p], "500", "-")
                 ELSE /\ auto' = [a1 EXCEPT !.email = loc[p].email]
                      /\ Set(p, "sl_login", loc[p])
    /\ UNCHANGED <<file, started, store>>
    /\ sched' = NoSched

SlLoginDone(p) ==
    /\ At(p, "sl_login")
    /\ IF auto.page # "live"
       THEN /\ Respond(p, loc[p], "500", "-")
            /\ UNCHANGED <<auto, file, auth>>
            /\ effects' = NoEffects
       ELSE \E o \in login(World, auto.email) :
              /\ SetWorld(auto, o.w)
              /\ Respond(p, loc[p], IF o.ret = "raise" THEN "500" ELSE o.ret, "-")
    /\ UNCHANGED <<cfg, installed, started, store>>
    /\ sched' = NoSched

\* POST /api/automation/submit-otp: main.py (action run, download, test or
\* anything else) and routes.py (action "route": the result is returned as is).
submit_otp(p) ==
    /\ CanStart(p)
    /\ \E action \in {"run", "download", "test", "other", "route"} :
          LET c1 == IF action = "route" THEN cfg
                    ELSE update_status(cfg, "Submitting OTP...")
              l == [Idle0 EXCEPT !.op = "submit_otp", !.action = action,
                                 !.wrote = action # "route"]
          IN  IF auto.page = "none"
              THEN /\ cfg' = IF action = "route" THEN cfg
                             ELSE update_status(c1, "OTP Error: ...")
                   /\ Respond(p, [l EXCEPT !.result = "error"], "error", "-")
              ELSE /\ cfg' = c1
                   /\ Set(p, "otp_submit", [l EXCEPT !.acted = TRUE])
    /\ UNCHANGED <<auto, file, auth, installed, started, store>>
    /\ effects' = NoEffects
    /\ sched' = NoSched

OtpSubmitDone(p) ==
    /\ At(p, "otp_submit")
    /\ \E o \in (IF auto.page # "live" THEN {[ret |-> "error", w |-> World]}
                 ELSE submit_otp_outcomes(World)) :
          LET action == loc[p].action
              l == [loc[p] EXCEPT !.result = o.ret]
          IN  /\ SetWorld(auto, o.w)
              /\ CASE action = "route" ->
                        /\ cfg' = cfg
                        /\ Respond(p, l, IF o.ret = "success" THEN "success" ELSE "error", "-")
                   [] action # "route" /\ o.ret # "success" ->
                        /\ cfg' = update_status(cfg, "OTP Error: ...")
                        /\ Respond(p, l, "error", "-")
                   [] action = "run" /\ o.ret = "success" ->
                        /\ cfg' = update_status(cfg, "Login Successful! Resuming Full Run...")
                        /\ Respond(p, [l EXCEPT !.began = TRUE], "success", "rit")
                   [] action = "download" /\ o.ret = "success" ->
                        /\ cfg' = update_status(cfg, "Login Successful! Resuming Download...")
                        /\ Respond(p, [l EXCEPT !.began = TRUE], "success", "dlt")
                   [] action = "test" /\ o.ret = "success" ->
                        /\ cfg' = update_status(cfg, "Login Successful! Session saved.")
                        /\ Set(p, "otp_cleanup", l)
                   [] OTHER ->
                        /\ cfg' = update_status(cfg, "Login Successful!")
                        /\ Respond(p, l, "success", "-")
    /\ UNCHANGED <<installed, started, store>>
    /\ sched' = NoSched

OtpCleanup(p) ==
    /\ At(p, "otp_cleanup")
    /\ auto' = cleanup(auto)
    /\ auth' = FALSE
    /\ Respond(p, loc[p], "success", "-")
    /\ UNCHANGED <<cfg, file, installed, started, store>>
    /\ effects' = NoEffects
    /\ sched' = NoSched

\* POST /api/automation/clear-session: main.py ("main") and routes.py
\* ("route").  automator.clear_session awaits cleanup first.
clear_session(p) ==
    /\ CanStart(p)
    /\ \E variant \in {"main", "route"} :
          Set(p, "cs_cleanup", [Idle0 EXCEPT !.op = "clear_session", !.action = variant])
    /\ UNCHANGED <<cfg, auto, file, auth, installed, started, store>>
    /\ effects' = NoEffects
    /\ sched' = NoSched

ClearSessionDone(p) ==
    /\ At(p, "cs_cleanup")
    /\ LET r == clear_session_run(auto, file)
           l == [loc[p] EXCEPT !.result = IF r.ret THEN "true" ELSE "false"]
       IN  /\ auto' = r.auto
           /\ auth' = FALSE
           /\ file' = r.file
           /\ effects' = NoEffects
           /\ IF loc[p].action = "main"
              THEN IF r.ret
                   THEN /\ cfg' = update_status(cfg, "Session cleared.")
                        /\ Respond(p, l, "success", "-")
                   ELSE /\ cfg' = cfg
                        /\ Respond(p, l, "info", "-")
              ELSE /\ cfg' = cfg
                   /\ Respond(p, l, "200", "-")
    /\ UNCHANGED <<installed, started, store>>
    /\ sched' = NoSched

\* main.py: POST /api/automation/config, the schedule_time sent being one
\* of S (any string is accepted).
update_automation_config_from(p, S) ==
    /\ CanStart(p)
    /\ \E e \in Emails, act \in BOOLEAN, st \in S :
          /\ cfg' = [cfg EXCEPT !.email = e, !.is_active = act, !.schedule_time = st]
          /\ auto' = [auto EXCEPT !.email = e]
    /\ Respond(p, [Idle0 EXCEPT !.op = "update_config"], "success", "-")
    /\ UNCHANGED <<file, auth, installed, started, store>>
    /\ effects' = NoEffects
    /\ sched' = NoSched

update_automation_config(p) == update_automation_config_from(p, ScheduleTimes)

----------------------------------------------------------------------------
\* config.py: ConfigManager at the level of its two files, its lock and the
\* threads calling it.  A file holds a JSON object; a key it does not hold is
\* Absent.

MainKeys == {"status", "email"}
DashKeys == {"dashboard"}
StoreKeys == MainKeys \cup DashKeys
StoreFiles == {"main", "dash"}
Absent == "absent"

FileKeys(f) == IF f = "main" THEN MainKeys ELSE DashKeys

\* {}: what a missing, empty or unreadable file loads as.
EmptyRecord(K) == [k \in K |-> Absent]

\* The files _ensure_config leaves behind on first start.
default_files ==
    [ main |-> [whole |-> TRUE, rec |-> [k \in MainKeys |-> "v0"]],
      dash |-> [whole |-> TRUE, rec |-> [k \in DashKeys |-> "v0"]] ]

\* The keyword arguments of one update_config call: "-" for a key that is
\* not passed, "none" for a key passed as None.  The callers pass either the
\* dashboard or keys of the main file.
NoArgs == [k \in StoreKeys |-> "-"]
Arg(k, v) == [NoArgs EXCEPT ![k] = v]
Updates ==
    { Arg("status", "v1"), Arg("email", "v1"), Arg("dashboard", "v1"),
      Arg("email", "none"), [Arg("status", "v1") EXCEPT !["email"] = "none"] }

IdleThread ==
    [ pc |-> "idle", op |-> "-", kw |-> NoArgs,
      main |-> EmptyRecord(MainKeys), dash |-> EmptyRecord(DashKeys),
      saving |-> "-", saved |-> FALSE, overlap |-> FALSE ]

StoreInit ==
    [ disk |-> default_files, tmp |-> "none", litter |-> FALSE,
      lock |-> "-", th |-> [p \in Procs |-> IdleThread] ]

\* _load_file: the parsed object, or {} when the file cannot be read or
\* parsed (ok is whether the read itself went through).
load_file(f, ok) ==
    IF ok /\ f.whole THEN f.rec ELSE EmptyRecord(DOMAIN f.rec)

\* The loop of update_config over its arguments, for the keys K of one file.
merge(conf, kw, K) ==
    [k \in K |-> IF kw[k] \in {"-", "none"} THEN conf[k] ELSE kw[k]]

\* main_changed / dash_changed.
changed(kw, K) == \E k \in K : kw[k] \notin {"-", "none"}

InFlight(t) == t.pc \notin {"idle", "returned"}

StoreFrame ==
    UNCHANGED <<cfg, auto, file, auth, installed, started, pc, loc, effects,
                sched>>

\* A thread calls get_config or update_config and reaches the lock.
StoreCall(p) ==
    /\ store.th[p].pc = "idle"
    /\ \E op \in {"get", "update"} :
       \E kw \in IF op = "get" THEN {NoArgs} ELSE Updates :
         LET q == CHOOSE r \in Procs : r # p
             both == InFlight(store.th[q])
         IN  store' = [store EXCEPT
                 !.th[p] = [IdleThread EXCEPT !.pc = "lock", !.op = op,
                                             !.kw = kw, !.overlap = both],
                 !.th[q].overlap = @ \/ both]
    /\ StoreFrame

\* with self._lock: and the load of the main file.
StoreAcquire(p) ==
    /\ store.th[p].pc = "lock"
    /\ store.lock = "-"
    /\ \E ok \in BOOLEAN :
         store' = [store EXCEPT
             !.lock = p,
             !.th[p].pc = "load_dash",
             !.th[p].main = load_file(store.disk.main, ok)]
    /\ StoreFrame

\* The end of the with block.
release(s, p) == [s EXCEPT !.lock = "-", !.th[p].pc = "returned"]

\* What follows the save of file f (or its failure, which _save_file logs
\* and swallows): the save of the dashboard file, or the return.
after_save(s, p, f) ==
    IF f = "main" /\ changed(s.th[p].kw, DashKeys)
    THEN [s EXCEPT !.th[p].pc = "open", !.th[p].saving = "dash"]
    ELSE release([s EXCEPT !.th[p].saving = "-"], p)

\* The load of the dashboard file; get_config returns the two merged,
\* update_config applies its arguments and goes on to save what changed.
StoreLoadDash(p) ==
    /\ store.th[p].pc = "load_dash"
    /\ \E ok \in BOOLEAN :
         LET t == store.th[p]
             d == load_file(store.disk.dash, ok)
             s1 == [store EXCEPT
                      !.th[p].main = merge(t.main, t.kw, MainKeys),
                      !.th[p].dash = merge(d, t.kw, DashKeys)]
         IN  store' =
               IF t.op = "get" THEN release(s1, p)
               ELSE IF changed(t.kw, MainKeys)
                    THEN [s1 EXCEPT !.th[p].pc = "open", !.th[p].saving = "main"]
                    ELSE IF changed(t.kw, DashKeys)
                         THEN [s1 EXCEPT !.th[p].pc = "open",
                                         !.th[p].saving = "dash"]
                         ELSE release(s1, p)
    /\ StoreFrame

\* _save_file: open(temp_path, 'w').
StoreOpenTmp(p) ==
    /\ store.th[p].pc = "open"
    /\ \E ok \in BOOLEAN :
         store' = IF ok
                  THEN [store EXCEPT !.tmp = "empty", !.th[p].pc = "write"]
                  ELSE after_save(store, p, store.th[p].saving)
    /\ StoreFrame

\* A save that writes the object straight into the file itself.
tmp_write_in_place(s, f) ==
    [s EXCEPT !.disk[f].whole = FALSE]

\* _save_file: json.dump, flush and fsync, all into the temporary file.
tmp_write(s, f) ==
    [s EXCEPT !.tmp = "complete"]

StoreWriteTmp(p) ==
    /\ store.th[p].pc = "write"
    /\ \E ok \in BOOLEAN :
         LET f == store.th[p].saving
         IN  store' =
               IF ok
               THEN [tmp_write(store, f) EXCEPT !.th[p].pc = "replace"]
               ELSE after_save([store EXCEPT !.tmp = "none"], p, f)
    /\ StoreFrame

\* _save_file: os.replace(temp_path, path).
StoreReplace(p) ==
    /\ store.th[p].pc = "replace"
    /\ \E ok \in BOOLEAN :
         LET f == store.th[p].saving
             done == [store EXCEPT
                        !.disk[f] = [whole |-> TRUE, rec |-> store.th[p][f]],
                        !.tmp = "none",
                        !.th[p].saved = TRUE]
         IN  store' = IF ok THEN after_save(done, p, f)
                      ELSE after_save([store EXCEPT !.tmp = "none"], p, f)
    /\ StoreFrame

\* The caller goes on.
StoreReturn(p) ==
    /\ store.th[p].pc = "returned"
    /\ store' = [store EXCEPT !.th[p] = IdleThread]
    /\ StoreFrame

\* The process dies with calls in flight and is started again: the files
\* stay as they are, a temporary file stays behind, the threads are gone.
StoreCrash ==
    /\ \E p \in Procs : InFlight(store.th[p])
    /\ store' = [store EXCEPT
           !.litter = @ \/ store.tmp # "none",
           !.tmp = "none",
           !.lock = "-",
           !.th = [p \in Procs |-> IdleThread]]
    /\ StoreFrame

----------------------------------------------------------------------------

\* The process starts on the configuration a previous process left behind.
Init ==
    /\ \E s \in {"Idle", "Error", "Waiting for OTP...", "Processing"},
          e \in Emails, act \in BOOLEAN :
          cfg = [default_config EXCEPT !.status = s, !.email = e, !.is_active = act]
    /\ auto = new_automator
    /\ file \in BOOLEAN
    /\ auth = FALSE
    /\ installed \in BOOLEAN
    /\ started = FALSE
    /\ store = StoreInit
    /\ effects = NoEffects
    /\ sched = NoSched
    /\ pc = [p \in Procs |-> "idle"]
    /\ loc = [p \in Procs |-> Idle0]

Step(p) ==
    \/ Tick(p)
    \/ RunNow(p) \/ RnInitDone(p)
    \/ RitStart(p) \/ RitInitDone(p) \/ RitLoginDone(p)
    \/ request_export(p) \/ SyncStart(p)
    \/ DownloadLatest(p) \/ DltStart(p) \/ DltInitDone(p)
    \/ download_export(p)
    \/ OrchInitDone(p) \/ Navigate(p) \/ ClickRequest(p)
    \/ WaitForProcessing(p) \/ DownloadFile(p) \/ Cleanup(p)
    \/ test_login(p) \/ TlInitDone(p) \/ TlLoginDone(p) \/ TlCleanup(p)
    \/ start_login(p) \/ SlInitDone(p) \/ SlLoginDone(p)
    \/ submit_otp(p) \/ OtpSubmitDone(p) \/ OtpCleanup(p)
    \/ clear_session(p) \/ ClearSessionDone(p)
    \/ update_automation_config(p)

Commit(p) ==
    \/ RitReturn(p) \/ SyncReturn(p) \/ DltReturn(p) \/ DlrReturn(p)
    \/ Reply(p)

\* One coroutine at a time: every request and tick finds the loop free.
Next ==
    \/ Startup
    \/ Commit(Main)
    \/ Step(Main)

Spec == Init /\ [][Next]_vars

----------------------------------------------------------------------------
\* Overlapping runs: the scheduler and the clients that start runs
\* (run-now, request-export) on two slots, in a calm environment.

\* Chromium is installed, every launch succeeds, the request button is
\* there to click, and the export is generated (or the page fails) by the
\* first poll.
Calm ==
    /\ installed
    /\ auto.pw = "live" => auto.browser = "live" /\ auto.context = "live"
    /\ effects.click \in {"-", "clicked", "raise"}
    /\ \A p \in Procs : loc[p].i = 0

InitOverlap ==
    /\ Init
    /\ Calm
    /\ cfg.email = "user" /\ cfg.is_active

StepOverlap(p) ==
    \/ Tick(p)
    \/ RunNow(p) \/ (RnInitDone(p) /\ Calm')
    \/ RitStart(p) \/ (RitInitDone(p) /\ Calm') \/ RitLoginDone(p)
    \/ request_export(p) \/ SyncStart(p)
    \/ (OrchInitDone(p) /\ Calm') \/ Navigate(p) \/ (ClickRequest(p) /\ Calm')
    \/ (WaitForProcessing(p) /\ Calm') \/ DownloadFile(p) \/ Cleanup(p)

CommitOverlap(p) ==
    \/ RitReturn(p) \/ SyncReturn(p)
    \/ Reply(p)

NextOverlap ==
    \/ Startup
    \/ \E p \in Procs : CommitOverlap(p)
    \/ \E p \in Procs : StepOverlap(p)

SpecOverlap == InitOverlap /\ [][NextOverlap]_vars

----------------------------------------------------------------------------
\* The scheduler by itself: the loop of background_worker over a day of
\* clock readings and the schedules a client can store, with automation
\* switched off (is_active false), so that a due tick returns at once.

\* Midnight, the default schedule and the last minute of the day; on the
\* minute and inside it.
ClockGrid ==
    { [h |-> hh, m |-> mm, s |-> ss] :
        hh \in {0, 11, 23}, mm \in {0, 5, 59}, ss \in {0, 30} }

\* Schedules the scheduler can use, and the fields of two strings it cannot:
\* "24:00" (hour out of range) and "11" (one field).
ScheduleGrid == {<<0, 0>>, <<11, 0>>, <<11, 5>>, <<23, 59>>, <<24, 0>>, <<11>>}

InitSchedule ==
    /\ Init
    /\ ~cfg.is_active

NextSchedule ==
    \/ Startup
    \/ TickOn(Main, ClockGrid)
    \/ (update_automation_config_from(Main, ScheduleGrid) /\ ~cfg'.is_active)
    \/ Reply(Main)

SpecSchedule == InitSchedule /\ [][NextSchedule]_vars

\* The Status Store on its own: two threads calling it, reads and writes
\* that may fail, and a process that may die at any step.
InitStore == Init /\ cfg = default_config /\ ~file /\ installed

NextStore ==
    \/ \E p \in Procs :
         \/ StoreCall(p)
         \/ StoreAcquire(p)
         \/ StoreLoadDash(p)
         \/ StoreOpenTmp(p)
         \/ StoreWriteTmp(p)
         \/ StoreReplace(p)
         \/ StoreReturn(p)
    \/ StoreCrash

SpecStore == InitStore /\ [][NextStore]_vars

\* A run and the configuration endpoint: the scheduler or run-now drives a
\* run on one slot while a client stores a new configuration on the other,
\* in a calm environment.
StepReconfigure(p) ==
    \/ Tick(p)
    \/ RunNow(p) \/ (RnInitDone(p) /\ Calm')
    \/ RitStart(p) \/ (RitInitDone(p) /\ Calm') \/ RitLoginDone(p)
    \/ Navigate(p) \/ (ClickRequest(p) /\ Calm')
    \/ (WaitForProcessing(p) /\ Calm') \/ DownloadFile(p) \/ Cleanup(p)

NextReconfigure ==
    \/ Startup
    \/ RitReturn(Main)
    \/ \E p \in Procs : Reply(p)
    \/ StepReconfigure(Main)
    \/ update_automation_config(Second)

SpecReconfigure == InitOverlap /\ [][NextReconfigure]_vars

----------------------------------------------------------------------------
\* Properties

\* A run of p is driving the automator: it has been started and has reached
\* its first browser call.
Driving(p) == loc[p].began /\ loc[p].acted

\* C1: a run (daily trigger, poll, run-now, request-export, download-existing,
\* resume after a passcode) begins only while the stored status is Idle or
\* Error: in every step in which an operation starts a run, the status it
\* found was one of the two.
C1_RunBeginsOnlyFromIdleOrError ==
    [][\A p \in Procs :
          (~loc[p].began /\ loc'[p].began) => cfg.status \in IdleOrError]_vars

\* C2: at most one run is driving the automator at any time.
C2_AtMostOneRunDriving ==
    Cardinality({p \in Procs : Driving(p)}) <= 1

\* C3: a request-export that finds the status equal to Processing answers
\* 409, schedules no background run and leaves the status record unchanged.
C3_RequestExportRejectedWhileProcessing ==
    [][\A p \in Procs :
          (pc[p] = "idle" /\ loc'[p].op = "request_export"
              /\ cfg.status = "Processing")
          => /\ pc'[p] = "done"
             /\ loc'[p].resp = "409"
             /\ loc'[p].next = "-"
             /\ ~loc'[p].began
             /\ cfg' = cfg]_vars

\* C3, its case: a request-export has been answered 409 while a full sync
\* holds the status at Processing.
C3_Witness ==
    \E p \in Procs :
        /\ pc[p] = "done" /\ loc[p].op = "request_export"
        /\ loc[p].resp = "409" /\ loc[p].next = "-"
        /\ cfg.status = "Processing"

\* C4: a run accepted while the status was Idle or Error has written a
\* status outside {Idle, Error} by the time of its first browser action.
C4_StatusWrittenBeforeBrowserAction ==
    \A p \in Procs :
        (loc[p].began /\ loc[p].from_idle /\ loc[p].acted) => loc[p].wrote

\* The operations that initialize the session: the runs (full run, full
\* sync, download-existing as task and as route), test-login, start-login.
InitializesSession(l) ==
    l.task \in {"rit", "sync", "dlt", "dlr"} \/ l.op \in {"test_login", "start_login"}

\* The step ends p's operation by parking it for a passcode: the caller is
\* told otp_required, or the run returns with the waiting status stored.
ParksForPasscode(p) ==
    \/ loc[p].resp = "otp_required"
    \/ pc[p] \in {"rit_login", "ret"} /\ HasWaiting(cfg'.status)

\* C5: whenever an operation that initializes the session ends, other than
\* by parking for a passcode, the session's initialized flag is false.
C5_CleanupOnEveryExit ==
    [][\A p \in Procs :
          (pc[p] # "idle" /\ pc'[p] = "idle" /\ InitializesSession(loc[p])
              /\ ~ParksForPasscode(p))
          => ~auto'.init]_vars

\* C6: whenever the stored status is "Waiting for OTP...", the session is
\* initialized and its page is the passcode page.
C6_WaitingKeepsPasscodePage ==
    (started /\ cfg.status = "Waiting for OTP...")
        => (auto.init /\ auto.page = "live" /\ auto.url = "otp")

\* C7: a run the scheduler starts from a poll tick (minute divisible by 5,
\* not the scheduled minute, waiting marker in the status) never attempts a
\* login and never requests an export.
C7_PollOnlyResumes ==
    \A p \in Procs : loc[p].via = "poll" => pc[p] \notin {"rit_login", "click"}

\* C8: no fault escapes request_new_export_and_download or
\* download_existing_export to the caller.
C8_NoExceptionEscapes ==
    \A p \in Procs : ~loc[p].escaped

\* C9: an entry point returns otp_required only when login() reported it
\* during navigation; a navigation that runs out of iterations or faults
\* returns the plain no-file result.
C9_PasscodeSignalOnlyFromLogin ==
    \A p \in Procs :
        pc[p] = "ret" =>
            /\ loc[p].result = "otp_required" => loc[p].nav_otp
            /\ (loc[p].exhausted \/ loc[p].nav_fault) => loc[p].result = "none"

\* What a caller stores when the entry point brought no file.
NoFileStatuses == {"Failed to download export.", "Error"}

\* C10: a generation wait that stays not-ready through all max_retries polls
\* makes the entry point return no file, with no fault escaping and no
\* download attempted; the caller then stores a failure status, which is
\* still there when the run ends.
C10_WaitBudgetExhaustedFails ==
    [][\A p \in Procs :
          /\ (~loc[p].timedout /\ loc'[p].timedout)
             => /\ pc[p] = "wait" /\ loc[p].i = max_retries - 1
                /\ pc'[p] = "ret" /\ loc'[p].result = "none"
                /\ ~loc'[p].dl_tried /\ ~loc'[p].escaped
          /\ (loc[p].timedout /\ pc[p] = "ret")
             => /\ pc'[p] = "cleanup" /\ loc'[p].timedout
                /\ cfg'.status \in NoFileStatuses
                /\ cfg'.status # "Idle"
                /\ cfg'.last_run = cfg.last_run
          /\ (loc[p].timedout /\ pc[p] = "cleanup")
             => /\ pc'[p] = "idle"
                /\ cfg' = cfg]_vars

\* C10, its case: the run whose wait used up its retries has stored its
\* failure status and is about to end.
C10_Witness ==
    \E p \in Procs :
        /\ loc[p].timedout /\ pc[p] = "cleanup"
        /\ cfg.status \in NoFileStatuses

\* What submit_otp can hand back: success, or an error (the invalid-code
\* error, or any other).
OtpResults == {"success", "invalid", "error"}

\* C11: submit_otp never raises, whatever the session state (no page, page
\* closed by a cleanup, passcode field absent, code rejected): every call
\* that has returned gave a result with status success or error.
C11_SubmitOtpAlwaysReturns ==
    \A p \in Procs :
        (loc[p].op = "submit_otp" /\ pc[p] \in {"done", "otp_cleanup"})
            => loc[p].result \in OtpResults

\* C11, its case: submit_otp was called on a session that had already been
\* cleaned up and returned an error.
C11_Witness ==
    \E p \in Procs :
        /\ loc[p].op = "submit_otp" /\ pc[p] = "done"
        /\ loc[p].result = "error"
        /\ auto.page = "closed"

\* C12: a submit_otp that does not end in success (the site rejected the
\* code, or any other error) leaves the StorageState file as it was: the
\* file is neither created nor removed and no write to it is made.
C12_RejectedCodeKeepsFile ==
    [][\A p \in Procs :
          (pc[p] = "otp_submit" /\ pc'[p] = "done"
              /\ loc'[p].result \in {"invalid", "error"})
          => (file' = file /\ effects'.saves = {})]_vars

\* C12, its case: the site has rejected a code while a StorageState file
\* from an earlier login exists.
C12_Witness ==
    \E p \in Procs :
        /\ loc[p].op = "submit_otp" /\ pc[p] = "done"
        /\ loc[p].result = "invalid"
        /\ file

\* C13: every write of the StorageState file is made on the account home
\* page of an authenticated session, the page on which the logged-in check
\* succeeds: never on the login form or while a passcode is pending.
C13_SavedOnlyWhenLoggedIn ==
    \A s \in effects.saves : s.url = "home" /\ s.auth

\* C13, its case: a step has written the StorageState file.
C13_Witness ==
    effects.saves # {} /\ file

SessionStates ==
    [pw : {"none", "live", "closed"}, browser : {"none", "live", "closed"},
     context : {"none", "live", "closed"}]

Stamp(d, h, m, s) == ((d * 24 + h) * 60 + m) * 60 + s

\* C17: the next_run a tick stores is the earliest occurrence of
\* schedule_time that is not before the clock reading: it is at
\* schedule_time, it is not in the past (a reading exactly on the scheduled
\* instant keeps today's occurrence), and the occurrence one day earlier is
\* in the past (a reading inside the scheduled minute gets tomorrow's).
C17_NextRunEarliestFuture ==
    (sched.ticked /\ ~sched.caught) =>
        LET st == cfg.schedule_time
            n == cfg.next_run
            N == Stamp(n.day, n.h, n.m, 0)
            T == Stamp(0, sched.now.h, sched.now.m, sched.now.s)
        IN  /\ n.h = st[1] /\ n.m = st[2]
            /\ N >= T
            /\ N - Stamp(1, 0, 0, 0) < T

\* C17, its case: a tick inside the scheduled minute has stored tomorrow's
\* occurrence.
C17_Witness ==
    /\ sched.ticked /\ ~sched.caught
    /\ sched.now.h = cfg.schedule_time[1] /\ sched.now.m = cfg.schedule_time[2]
    /\ sched.now.s > 0
    /\ cfg.next_run.day = 1

C19_StartupResetsStuckStatus ==
    [][/\ (~started /\ started')
          => /\ cfg'.status \in IdleOrError
             /\ cfg.status \notin IdleOrError => cfg'.status = "Idle"
             /\ [cfg' EXCEPT !.status = cfg.status] = cfg
       /\ sched'.ticked => started]_vars

\* C19, its case: the startup has found a status left by a previous process
\* and has reset it.
C19_Witness ==
    started /\ sched.reset /\ cfg.status = "Idle"

\* C20: a suspension recorded in the status by a previous process (the
\* waiting marker) is still recorded once the process has started again, so
\* that the scheduler's poll fires for it.
C20_SuspensionSurvivesRestart ==
    [][(~started /\ started' /\ HasWaiting(cfg.status))
          => HasWaiting(cfg'.status)]_vars

\* C16: no call of initialize leaves a browser or context live and
\* unreferenced, whether the calls follow or overlap one another: at most
\* one browser, context and page are live.
C16_OneLiveSession ==
    ~effects.orphaned

----------------------------------------------------------------------------
\* The Status Store's files (SpecStore)

\* The value the persisted record holds for key k.
DiskValue(k) ==
    IF k \in MainKeys THEN store.disk.main.rec[k] ELSE store.disk.dash.rec[k]

\* C21: update_config merges: while an update holds the store, every key
\* that is not among its arguments keeps the value the persisted record had
\* for it, whatever the load of the existing file returned.
C21_UpdateMerges ==
    [][\A p \in Procs :
         (store.lock = p /\ store.th[p].op = "update") =>
            \A k \in StoreKeys :
               store.th[p].kw[k] = "-" => DiskValue(k)' = DiskValue(k)]_vars

\* C22: a save is atomic: at every step, a failed write and the death of
\* the process included, each file holds a complete object, and it changes
\* only in the os.replace of a save, to the complete object being saved.
C22_SaveIsAtomic ==
    [][\A f \in StoreFiles :
         /\ store'.disk[f].whole
         /\ store'.disk[f] # store.disk[f] =>
              \E p \in Procs :
                 /\ store.th[p].pc = "replace"
                 /\ store.th[p].saving = f
                 /\ store'.disk[f].rec = store.th[p][f]]_vars

\* The process died in the middle of a save, and a get_config after the
\* restart has returned the record the file holds, whole.
C22_Witness ==
    /\ store.litter
    /\ \E p \in Procs :
         /\ store.th[p].op = "get"
         /\ store.th[p].pc = "returned"
         /\ store.th[p].main = store.disk.main.rec
         /\ \A k \in MainKeys : store.disk.main.rec[k] # Absent
         /\ \E k \in MainKeys : store.disk.main.rec[k] = "v1"

\* C23: no lost update: when two updates of different keys that were in
\* flight together have both saved and returned, the persisted record holds
\* the value each of them wrote.
C23_NoLostUpdate ==
    \A p, q \in Procs :
       LET t == store.th[p]
           u == store.th[q]
       IN  ( /\ p # q
             /\ t.pc = "returned" /\ u.pc = "returned"
             /\ t.op = "update" /\ u.op = "update"
             /\ t.saved /\ u.saved
             /\ t.overlap /\ u.overlap
             /\ \A k \in StoreKeys : t.kw[k] = "-" \/ u.kw[k] = "-" )
           => \A k \in StoreKeys : t.kw[k] = "v1" => DiskValue(k) = "v1"

----------------------------------------------------------------------------
\* Ingestion and the end of a run

\* C24: the ingestion is handed nothing but the path of a downloaded file:
\* never the passcode-required signal, an error value or no file.
C24_IngestsOnlyPaths ==
    \A p \in Procs : loc[p].ingested \in {"-", "path"}

\* C25: when the ingestion of a downloaded file fails (the caller handles
\* the returned path and last_run stays as it was), the status written is
\* "Ingestion Failed: <reason>" and the run goes on to its cleanup.
C25_IngestionFailureRecorded ==
    [][\A p \in Procs :
         ( /\ pc[p] = "ret"
           /\ loc[p].task \in {"rit", "sync", "dlt"}
           /\ loc[p].result = "path"
           /\ pc'[p] # "ret"
           /\ cfg'.last_run = cfg.last_run )
         => /\ cfg'.status = "Ingestion Failed: ..."
            /\ pc'[p] = "cleanup"]_vars

\* The statuses a run writes to record that it failed.
FailureStatuses ==
    {"Error", "Error: ...", "Failed to download export.", "Ingestion Failed: ..."}

\* The run of p is at its last step and has not ingested a file with success.
RunFailed(p) ==
    /\ pc[p] = "cleanup"
    /\ loc[p].task \in {"rit", "sync", "dlt"}
    /\ (loc[p].ingested = "-" \/ cfg.status # "Idle")

\* C26: a run that ends in failure has written a failure indication to the
\* status by the time it returns.
C26_FailureIsRecorded ==
    [][\A p \in Procs :
         (RunFailed(p) /\ pc'[p] = "idle") => cfg'.status \in FailureStatuses]_vars

----------------------------------------------------------------------------
\* A run and the configuration endpoint (SpecReconfigure)

\* C28: once a run has set the automator's email (after its initialize), a
\* step that is not the run's own leaves the email the automator logs in
\* with as it was, to the end of the run.
C28_RunKeepsEmail ==
    [][\A p \in Procs :
         ( /\ Driving(p)
           /\ loc[p].task = "rit"
           /\ pc[p] # "rit_init"
           /\ pc'[p] = pc[p] /\ loc'[p] = loc[p] )
         => auto'.email = auto.email]_vars

----------------------------------------------------------------------------
\* The passcode and the export request

\* C29: a submit_otp that returns the invalid-code error leaves the session
\* as it was, live and on the passcode page (no cleanup, no navigation), so
\* that a submit_otp on it with a code the site accepts succeeds and saves
\* the session.
C29_InvalidCodeKeepsSession ==
    [][\A p \in Procs :
          (pc[p] = "otp_submit" /\ pc'[p] = "done" /\ loc'[p].result = "invalid")
          => /\ auto' = auto
             /\ auth' = auth
             /\ auto'.init /\ auto'.page = "live" /\ auto'.url = "otp"
             /\ \E o \in submit_otp_outcomes(World') :
                   o.ret = "success" /\ o.w.file /\ o.w.auth]_vars

\* C29, its case: the site has rejected a code and the handler has returned
\* its error, with the session still on the passcode page.
C29_Witness ==
    \E p \in Procs :
        /\ loc[p].op = "submit_otp" /\ pc[p] = "done"
        /\ loc[p].result = "invalid"
        /\ loc[p].resp = "error"
        /\ auto.page = "live" /\ auto.url = "otp"

\* C30: whenever the click-request step ends with the button clicked,
\* disabled, missing or with a failed click, the run goes on to the wait for
\* generation: the entry point does not return and nothing is written to the
\* status.
C30_ClickOutcomesEnterWait ==
    [][\A p \in Procs :
          ( /\ pc[p] = "click" /\ pc'[p] # "click"
            /\ effects'.click \in {"clicked", "disabled", "missing", "click_failed"} )
          => /\ pc'[p] = "wait"
             /\ loc'[p].result = loc[p].result
             /\ cfg' = cfg]_vars

\* C30, its case: the click has failed and the run is in the wait.
C30_Witness ==
    /\ effects.click = "click_failed"
    /\ \E p \in Procs : pc[p] = "wait" /\ loc[p].task \in {"rit", "sync"}

----------------------------------------------------------------------------
\* Navigation, the generation wait and login

\* C31: _navigate_to_export_page ends after at most nav_iterations
\* classifications, whatever the redirects, and reports success only with
\* the page on the export page; a loop that runs out away from the export
\* page reports failure, and the entry point then returns without a file.
C31_NavigationBounded ==
    \A p \in Procs :
       /\ (pc[p] = "nav" /\ auto.page = "live") =>
             LET O == navigate_counted(World, auto.email)
             IN  /\ O # {}
                 /\ \A o \in O :
                       /\ o.iters \in 0..nav_iterations
                       /\ o.ret \in {"true", "false", "raise"}
                       /\ o.ret = "true" => o.w.url = "export"
                       /\ o.ret = "false" => (o.otp \/ o.exhausted)
                       /\ o.exhausted =>
                             /\ o.ret = "false"
                             /\ o.w.url # "export"
                             /\ o.iters = nav_iterations
       /\ pc[p] = "click" => auto.url = "export"
       /\ (pc[p] = "ret" /\ loc[p].exhausted) =>
             /\ auto.url # "export"
             /\ loc[p].result \in {"none", "otp_required"}

\* C31, its case: the loop has run out with the page somewhere else than
\* the export page or the login page, and the entry point has returned
\* without a file.
C31_Witness ==
    \E p \in Procs :
        /\ pc[p] = "ret"
        /\ loc[p].exhausted
        /\ loc[p].result = "none"
        /\ auto.url \in {"home", "other"}

\* C32: in request_new_export_and_download the download step is entered
\* only from the generation wait, on the poll that found the button visible
\* and enabled, with no sleep or reload after that poll; and from one poll
\* to the next the wait sleeps, reloads and waits for the page to load.
C32_DownloadAfterReadyPoll ==
    [][\A p \in Procs :
          /\ ( /\ pc[p] # "download" /\ pc'[p] = "download"
               /\ OrchKind(loc'[p].task) = "request_new" )
             => (pc[p] = "wait" /\ effects'.calls = <<"poll">>)
          /\ (pc[p] = "wait" /\ pc'[p] = "wait")
             => /\ effects'.calls = <<"poll", "sleep", "reload", "load_state">>
                /\ loc'[p].i = loc[p].i + 1
                /\ loc'[p].i < max_retries]_vars

\* C32, its case: a poll has found the button ready and the run is at the
\* download, in a run that requested a new export.
C32_Witness ==
    \E p \in Procs :
        /\ pc[p] = "download"
        /\ OrchKind(loc[p].task) = "request_new"
        /\ effects.calls = <<"poll">>

\* The awaits of login() by its direct callers.
LoginAwaits == {"rit_login", "tl_login", "sl_login"}

\* C33: login() on a page that resolves to the authenticated account home
\* saves the session and returns without an email and without touching the
\* form; login() without an email on a session that is not logged in raises
\* before any interaction with the form; and run_ingestion_task then stores
\* the error status and closes the session in its cleanup.
C33_LoginWithoutEmail ==
    [][\A p \in Procs :
          /\ (pc[p] \in LoginAwaits /\ pc'[p] # pc[p] /\ auto.page = "live") =>
                LET O == login(World, auto.email)
                IN  /\ \A o \in O :
                          /\ o.ret = "none" =>
                                /\ o.w.url = "home" /\ o.w.auth /\ o.w.file
                                /\ ~o.w.form
                                /\ o.w.saves = {[url |-> "home", auth |-> TRUE]}
                          /\ auto.email = "" =>
                                (~o.w.form /\ o.ret \in {"none", "raise"})
                    /\ (auto.url = "home" \/ (auth /\ auto.url \notin InBase))
                          => \E o \in O : o.ret = "none"
          /\ ( /\ pc[p] = "rit_login" /\ pc'[p] # pc[p]
               /\ auto.email = "" /\ auto'.url # "home" )
             => /\ cfg'.status = "Error: ..."
                /\ pc'[p] = "cleanup"
                /\ ~effects'.form /\ effects'.saves = {}
          /\ (pc[p] = "cleanup" /\ loc[p].task = "rit" /\ pc'[p] = "idle")
             => (~auto'.init /\ auto'.page # "live" /\ auto'.context # "live")]_vars

\* C33, its case: a run without an email found the session not logged in,
\* stored the error status and is about to clean up.
C33_Witness ==
    \E p \in Procs :
        /\ pc[p] = "cleanup" /\ loc[p].task = "rit"
        /\ auto.email = "" /\ auto.page = "live" /\ auto.url = "login"
        /\ ~effects.form
        /\ cfg.status = "Error: ..."

\* Idle, and every status that reports an error: "Error" with a message and
\* "Error: <exception>".
IdleOrAnyError == IdleOrError \cup {"Error: ..."}

\* C34: a run that is not parked for a passcode ends, whatever its outcome
\* (success, no file, ingestion failure, exception), with the stored status
\* Idle or Error.
C34_RunEndsIdleOrError ==
    [][\A p \in Procs :
         (pc[p] = "cleanup" /\ loc[p].task \in {"rit", "sync"} /\ pc'[p] = "idle")
            => cfg'.status \in IdleOrAnyError]_vars

\* C35: with is_active false a tick of the scheduler, due or polling
\* included, touches neither the browser nor the session, starts no run and
\* leaves the status as it was; a forced run (run-now, the resume after a
\* passcode) starts whatever is_active says.
C35_InactiveSkipsUnforcedRuns ==
    [][/\ (sched'.ticked /\ ~cfg.is_active)
          => /\ cfg'.status = cfg.status
             /\ cfg'.last_run = cfg.last_run
             /\ auto' = auto /\ auth' = auth /\ file' = file
             /\ installed' = installed
             /\ pc' = pc
             /\ effects' = NoEffects
       /\ \A p \in Procs :
             (pc[p] = "rit_start" /\ pc'[p] # pc[p])
                => /\ loc[p].force
                   /\ loc[p].op \in {"run_now", "submit_otp"}
                   /\ pc'[p] \in {"rit_init", "rit_login"}
                   /\ loc'[p].task = "rit"
                   /\ cfg'.status \in {"Initializing...",
                                       "Installing dependency (Chromium)..."}]_vars

\* C35, its case: a tick at the scheduled minute with the schedule switched
\* off has just returned.
C35_Witness ==
    /\ sched.ticked /\ ~sched.caught
    /\ ~cfg.is_active
    /\ cfg.schedule_time = <<11, 0>>
    /\ sched.now.h = 11 /\ sched.now.m = 0
    /\ \A p \in Procs : pc[p] = "idle"
    /\ ~auto.init

\* schedule_time strings of two integers in range, as pairs.
WellFormedSchedules == (0..23) \X (0..59)

\* C36: a tick that reads a malformed schedule_time starts no run, writes
\* nothing to the store and leaves the scheduler running; a tick that reads
\* a well-formed one, the tick after a malformed one included, computes and
\* stores next_run as usual.
C36_MalformedScheduleSkipsTick ==
    [][sched'.ticked =>
         IF cfg.schedule_time \notin WellFormedSchedules
         THEN /\ sched'.caught
              /\ cfg' = cfg
              /\ pc' = pc /\ loc' = loc
              /\ auto' = auto /\ auth' = auth /\ file' = file
              /\ installed' = installed
              /\ \A p \in Procs : pc'[p] # "crashed"
         ELSE /\ ~sched'.caught
              /\ cfg'.next_run = next_run(sched'.now, cfg.schedule_time)
              /\ cfg'.schedule_time = cfg.schedule_time
              /\ cfg'.status = cfg.status]_vars

\* C36, its case: the tick just taken read "24:00" and was skipped, and the
\* next_run an earlier tick had stored is still there.
C36_Witness ==
    /\ sched.ticked /\ sched.caught
    /\ cfg.schedule_time = <<24, 0>>
    /\ cfg.next_run # NoNextRun
    /\ \A p \in Procs : pc[p] = "idle"

====
